---------------------------- MODULE Spec2Model ----------------------------
(***************************************************************************)
(* A model of pyaleph's content resolver (src/aleph/storage.py) and of its *)
(* pending-work jobs (src/aleph/jobs.py).                                   *)
(*                                                                          *)
(* Every coroutine is a process whose steps are its suspension points: one *)
(* action runs the code from one await to the next, as the asyncio event   *)
(* loop does.  These specifications share the module:                      *)
(*   SpecStorage   concurrent calls of get_hash_content                     *)
(*   SpecMessages  retry_messages_task and its handle_pending_message tasks *)
(*   SpecTxs       handle_txs_task and its handle_pending_tx tasks          *)
(*   SpecTasks     the loops of the two tasks, with their fairness          *)
(*   SpecCancel    the two tasks, either of which may be cancelled          *)
(*   SpecNetwork   one call of check_message (src/aleph/network.py)         *)
(*   SpecVerify    one call of verify_content_hash                          *)
(***************************************************************************)
EXTENDS Integers, Sequences, FiniteSets, TLC

VARIABLES
    \* ---- storage.py ----
    store,            \* aleph.services.filestore: hash -> bytes or None
    enabled_clients,  \* app["config"].p2p.clients.value
    ipfs_enabled,     \* app["config"].ipfs.enabled.value
    calls,            \* one frame per caller of get_hash_content
    cached,           \* history: hash -> bytes returned by finished non-DB
                      \* resolves that had store_value = true
    \* ---- jobs.py: retry_messages_task ----
    pending_messages, \* PendingMessage.collection: the _ids it holds
    msg_chain,        \* pending['source'].get('chain_name') of each record
    msg_pc,           \* where retry_messages_task is suspended
    msg_sweep,        \* number of the current (or last) sweep, 0 before the first
    msg_cursor,       \* records the find() cursor has yet to yield
    msg_i,            \* i of retry_messages_job
    msg_tasks,        \* tasks of retry_messages_job
    msg_final,        \* the join in progress is the one of line 59
    msg_actions,      \* the actions list of each sweep
    msg_handlers,     \* state of the handle_pending_message task of each
                      \* sweep and record
    msg_hist,         \* history: deletes appended, removals, calls of
                      \* incoming, last bulk write, failed writes
    \* ---- jobs.py: handle_txs_task ----
    pending_txs,      \* PendingTX.collection: the _ids it holds
    message_inserts,  \* documents handle_pending_tx has inserted into
                      \* PendingMessage.collection, in order
    tx_pc,            \* where handle_txs_task is suspended
    tx_sweep,         \* number of the current (or last) sweep
    tx_cursor,        \* records the find() cursor has yet to yield
    tx_i,             \* i of handle_txs_job
    tx_tasks,         \* tasks of handle_txs_job
    tx_final,         \* the join in progress is the one of line 125
    tx_actions,       \* the actions list of each sweep
    tx_handlers,      \* state of the handle_pending_tx task of each sweep
                      \* and record, with what the extractor returned
    tx_hist,          \* history: inserts and written deletes per task,
                      \* failed writes
    \* ---- network.py ----
    net,              \* the call of check_message: its arguments, the
                      \* message as it stands, where it is suspended, its result
    \* ---- jobs.py: module state ----
    RETRY_LOCK,       \* the asyncio.Lock of line 9: held or not, and the
                      \* coroutines waiting for it
    \* ---- storage.py: verify_content_hash called on its own ----
    vch               \* the call: its arguments, whether the daemon timed
                      \* out, and how it ended

storage_vars == <<store, enabled_clients, ipfs_enabled, calls, cached>>

None == "None"

\* No hash: a hash is a tuple, and so is its absence.
NoHash == <<>>

(***************************************************************************)
(* Bounds of the storage model.                                             *)
(***************************************************************************)
NumCallers == 2

Callers == 1..NumCallers

\* Byte payloads: the genuine one and a corrupted one.
Contents == {"payload", "pwned"}

(***************************************************************************)
(* Hashes.  A hash is modelled by the scheme that produced it and the      *)
(* bytes it was computed from, so the hash functions are injective and the *)
(* three schemes never collide; its length is the length of the scheme's   *)
(* printable form (sha256 hex: 64, CIDv0: 46, CIDv1 base32: 59).           *)
(***************************************************************************)
get_sha256(content) == <<"sha256", content>>

add_ipfs_bytes(content, cid_version) == <<"cid", cid_version, content>>

HashLen(h) ==
    IF h[1] = "sha256" THEN 64
    ELSE IF h[2] = 0 THEN 46 ELSE 59

\* The hashes callers ask for: those of the genuine payload.  Calls on
\* different hashes share no state (the store is keyed by hash), so the
\* model follows the calls on one hash, resolved under the item type its
\* message declares (get_message_content, lines 61-65); see Call.
Hashes ==
    {get_sha256("payload"), add_ipfs_bytes("payload", 0)}

\* aleph.types.ItemType
ItemTypes == {"ipfs", "storage", "inline"}

\* storage.py line 122: the shortest CIDv1.
CID_V1_MIN_LEN == 58

\* The CID is always recomputed in version 0.
compute_content_hash_ipfs_v0(content, expected_hash, timed_out) ==
    IF timed_out THEN NoHash ELSE add_ipfs_bytes(content, 0)

(***************************************************************************)
(* compute_content_hash_ipfs: the CID version follows the expected hash's  *)
(* length; a timeout of the daemon gives None.                              *)
(***************************************************************************)
compute_content_hash_ipfs(content, expected_hash, timed_out) ==
    LET cid_version == IF HashLen(expected_hash) >= CID_V1_MIN_LEN THEN 1 ELSE 0
    IN  IF timed_out THEN NoHash ELSE add_ipfs_bytes(content, cid_version)

compute_content_hash_sha256(content, expected_hash) == get_sha256(content)

(***************************************************************************)
(* verify_content_hash: "ok" when it returns, else the exception raised.   *)
(* timed_out is the daemon's answer to the hash recomputation.             *)
(***************************************************************************)
verify_always_ok(content, engine, expected_hash, timed_out) == "ok"

verify_content_hash(content, engine, expected_hash, timed_out) ==
    IF ~((engine = "ipfs" /\ ipfs_enabled) \/ engine = "storage")
    THEN "ValueError"
    ELSE LET computed_hash ==
                 IF engine = "ipfs" /\ ipfs_enabled
                 THEN compute_content_hash_ipfs(content, expected_hash, timed_out)
                 ELSE compute_content_hash_sha256(content, expected_hash)
         IN  IF computed_hash = NoHash THEN "ContentCurrentlyUnavailable"
             ELSE IF computed_hash # expected_hash THEN "InvalidContent"
             ELSE "ok"

(***************************************************************************)
(* A frame of get_hash_content.  pc names the await the call is suspended  *)
(* at; fetched is fetch_content_from_network's local `content`.  trace,    *)
(* verified, wrote, write_failed and prior are history: the sources asked  *)
(* in order with what each answered, the bytes that passed                 *)
(* verify_content_hash against content_hash, whether the call              *)
(* wrote the store, whether set_value raised, and the bytes that earlier   *)
(* finished resolves of the same hash had returned and cached when this    *)
(* call started.                                                            *)
(***************************************************************************)
IdleFrame ==
    [pc |-> "idle", content_hash |-> NoHash, engine |-> None,
     use_network |-> FALSE, use_ipfs |-> FALSE, store_value |-> FALSE,
     content |-> None, source |-> None, fetched |-> None, error |-> None,
     trace |-> <<>>, verified |-> {}, wrote |-> FALSE,
     write_failed |-> FALSE, prior |-> {}]

Raise(f, exc) == [f EXCEPT !.pc = "failed", !.error = exc]

\* line 202
should_store(f) == f.store_value /\ f.source # "DB"

\* lines 199-206: content is not None
StoreStage(f) ==
    IF should_store(f) THEN [f EXCEPT !.pc = "set_value"]
    ELSE [f EXCEPT !.pc = "done"]

\* line 190
ipfs_applicable_any_engine(f) == ipfs_enabled /\ f.use_ipfs

ipfs_applicable(f) == ipfs_enabled /\ f.engine = "ipfs" /\ f.use_ipfs

\* lines 189-197
IpfsStage(f) ==
    IF f.content = None
    THEN IF ipfs_applicable(f)
         THEN [f EXCEPT !.pc = "get_ipfs_content"]
         ELSE Raise(f, "ContentCurrentlyUnavailable")
    ELSE StoreStage(f)

\* lines 186-187: fetch_content_from_network returned cnt
NetworkReturned(f, cnt) ==
    IpfsStage([f EXCEPT !.content = cnt, !.source = "P2P", !.fetched = None])

\* lines 103-106
FetchVerify(f, cnt) ==
    IF cnt # None THEN [f EXCEPT !.pc = "verify_content_hash", !.fetched = cnt]
    ELSE NetworkReturned(f, None)

\* lines 100-101
FetchHttp(f, cnt) ==
    IF cnt = None /\ "http" \in enabled_clients
    THEN [f EXCEPT !.pc = "p2p_http_request_hash"]
    ELSE FetchVerify(f, cnt)

\* lines 93-98
fetch_content_from_network(f) ==
    IF "protocol" \in enabled_clients
    THEN [f EXCEPT !.pc = "streamer_request_hash"]
    ELSE FetchHttp(f, None)

\* line 185
try_network_ignoring_db(f) == f.use_network

try_network(f) == f.content = None /\ f.use_network

\* lines 182-187: get_value returned f.content
AfterGetValue(f) ==
    LET g == IF f.content # None THEN [f EXCEPT !.source = "DB"] ELSE f
    IN  IF try_network(g) THEN fetch_content_from_network(g)
        ELSE IpfsStage(g)

(***************************************************************************)
(* Actions of get_hash_content, one per await.                              *)
(***************************************************************************)
\* A caller enters get_hash_content (lines 166-181) and awaits get_value.
Call(c) ==
    /\ calls[c].pc \in {"idle", "done", "failed"}
    /\ \E h \in Hashes, e \in ItemTypes, un \in BOOLEAN, ui \in BOOLEAN, sv \in BOOLEAN :
         /\ \A d \in Callers : calls[d].content_hash \in {NoHash, h}
         /\ \A d \in Callers : calls[d].engine \in {None, e}
         /\ calls' = [calls EXCEPT ![c] =
                     [IdleFrame EXCEPT !.pc = "get_value", !.content_hash = h,
                                       !.engine = e, !.use_network = un,
                                       !.use_ipfs = ui, !.store_value = sv,
                                       !.prior = cached[h]]]
    /\ UNCHANGED <<store, enabled_clients, ipfs_enabled, cached>>

\* line 181: get_value answers from the store.
GetValue(c) ==
    /\ calls[c].pc = "get_value"
    /\ LET f == calls[c]
           g == [f EXCEPT !.content = store[f.content_hash],
                          !.trace = Append(f.trace, <<"DB", store[f.content_hash]>>)]
       IN  calls' = [calls EXCEPT ![c] = AfterGetValue(g)]
    /\ UNCHANGED <<store, enabled_clients, ipfs_enabled, cached>>

\* line 98: the streamer answers with bytes or None.
StreamerRequestHash(c) ==
    /\ calls[c].pc = "streamer_request_hash"
    /\ \E r \in Contents \cup {None} :
         LET f == calls[c]
             g == [f EXCEPT !.trace = Append(f.trace, <<"P2P_STREAM", r>>)]
         IN  calls' = [calls EXCEPT ![c] = FetchHttp(g, r)]
    /\ UNCHANGED <<store, enabled_clients, ipfs_enabled, cached>>

\* line 101: the HTTP peers answer with bytes or None.
P2pHttpRequestHash(c) ==
    /\ calls[c].pc = "p2p_http_request_hash"
    /\ \E r \in Contents \cup {None} :
         LET f == calls[c]
             g == [f EXCEPT !.trace = Append(f.trace, <<"P2P_HTTP", r>>)]
         IN  calls' = [calls EXCEPT ![c] = FetchVerify(g, r)]
    /\ UNCHANGED <<store, enabled_clients, ipfs_enabled, cached>>

\* line 104: verify_content_hash on the overlay's bytes; then lines 106, 187-206.
VerifyContentHash(c) ==
    /\ calls[c].pc = "verify_content_hash"
    /\ \E timed_out \in BOOLEAN :
         LET f == calls[c]
             v == verify_content_hash(f.fetched, f.engine, f.content_hash, timed_out)
         IN  calls' = [calls EXCEPT ![c] =
                 IF v = "ok"
                 THEN NetworkReturned([f EXCEPT !.verified = f.verified \cup {f.fetched}],
                                      f.fetched)
                 ELSE Raise(f, v)]
    /\ UNCHANGED <<store, enabled_clients, ipfs_enabled, cached>>

\* lines 191-206: get_ipfs_content answers with bytes or None.
GetIpfsContent(c) ==
    /\ calls[c].pc = "get_ipfs_content"
    /\ \E r \in Contents \cup {None} :
         LET f == calls[c]
             g == [f EXCEPT !.content = r, !.source = "IPFS",
                            !.trace = Append(f.trace, <<"IPFS", r>>)]
         IN  calls' = [calls EXCEPT ![c] =
                 IF r = None THEN Raise(g, "ContentCurrentlyUnavailable")
                 ELSE StoreStage(g)]
    /\ UNCHANGED <<store, enabled_clients, ipfs_enabled, cached>>

\* line 204: set_value writes the store, or raises; line 206 returns.
SetValue(c) ==
    /\ calls[c].pc = "set_value"
    /\ LET f == calls[c]
       IN  \/ /\ store' = [store EXCEPT ![f.content_hash] = f.content]
              /\ calls' = [calls EXCEPT ![c] = [f EXCEPT !.pc = "done", !.wrote = TRUE]]
              /\ cached' = [cached EXCEPT ![f.content_hash] = @ \cup {f.content}]
           \/ /\ calls' = [calls EXCEPT ![c] =
                             Raise([f EXCEPT !.write_failed = TRUE], "StoreError")]
              /\ UNCHANGED <<store, cached>>
    /\ UNCHANGED <<enabled_clients, ipfs_enabled>>

StorageInit ==
    /\ store \in [Hashes -> {None, "payload"}]
    /\ enabled_clients \in SUBSET {"protocol", "http"}
    /\ ipfs_enabled \in BOOLEAN
    /\ calls = [c \in Callers |-> IdleFrame]
    /\ cached = [h \in Hashes |-> {}]

\* The resolver at rest, for the specifications of the jobs.
StorageQuiet ==
    /\ store = [h \in Hashes |-> None]
    /\ enabled_clients = {}
    /\ ipfs_enabled = FALSE
    /\ calls = [c \in Callers |-> IdleFrame]
    /\ cached = [h \in Hashes |-> {}]

(***************************************************************************)
(* verify_content_hash called on its own, on any bytes, engine and         *)
(* expected hash: the sha256, the CIDv0 and the CIDv1 of either content.   *)
(***************************************************************************)
verify_vars == <<vch>>

ExpectedHashes ==
    {get_sha256(b) : b \in Contents}
        \cup {add_ipfs_bytes(b, v) : b \in Contents, v \in {0, 1}}

VerifyIdle(pc, content, engine, expected_hash) ==
    vch = [pc |-> pc, content |-> content, engine |-> engine,
           expected_hash |-> expected_hash, timed_out |-> FALSE,
           outcome |-> None]

VerifyStart ==
    \E content \in Contents, engine \in ItemTypes, expected_hash \in ExpectedHashes :
        VerifyIdle("start", content, engine, expected_hash)

\* verify_content_hash is not called on its own: for the other
\* specifications.
VerifyQuiet == VerifyIdle("done", "payload", "storage", get_sha256("payload"))

\* lines 137-163: the call runs to its return or to its exception; the
\* daemon answers the recomputation of line 126 or times out.
VerifyCall ==
    /\ vch.pc = "start"
    /\ \E timed_out \in BOOLEAN :
          vch' = [vch EXCEPT
                    !.pc = "done",
                    !.timed_out = timed_out,
                    !.outcome = verify_content_hash(vch.content, vch.engine,
                                                    vch.expected_hash, timed_out)]



(***************************************************************************)
(* Properties of get_hash_content.                                          *)
(***************************************************************************)
\* The position of a source in the resolution order.
Rank(src) ==
    CASE src = "DB" -> 1
      [] src = "P2P_STREAM" -> 2
      [] src = "P2P_HTTP" -> 3
      [] src = "IPFS" -> 4

\* The ContentSource a result carries when the named source supplied it.
SourceOf(src) ==
    CASE src = "DB" -> "DB"
      [] src = "P2P_STREAM" -> "P2P"
      [] src = "P2P_HTTP" -> "P2P"
      [] src = "IPFS" -> "IPFS"

Asked(f) == {f.trace[i][1] : i \in 1..Len(f.trace)}

\* The call is not suspended at a source: nothing more will be asked.
Settled(f) == f.pc \in {"set_value", "done", "failed"}

\* What the overlay handed to fetch_content_from_network, if anything.
OverlayBytes(f) ==
    {f.trace[i][2] : i \in {j \in 1..Len(f.trace) :
                              /\ f.trace[j][1] \in {"P2P_STREAM", "P2P_HTTP"}
                              /\ f.trace[j][2] # None}}

\* The bytes hash to h under none of the schemes.
Corrupted(b, h) ==
    /\ get_sha256(b) # h
    /\ add_ipfs_bytes(b, 0) # h
    /\ add_ipfs_bytes(b, 1) # h

\* C1: in every call the sources are asked in the order DB, P2P (stream,
\* then HTTP), IPFS, each only after all earlier ones answered None; a store
\* hit ends the call with source = DB and nothing else asked; a result
\* carries the source that supplied its bytes (P2P when the overlay did, with
\* IPFS not asked; IPFS only when store and overlay both missed).
C1_SourceOrdering ==
    \A c \in Callers :
        LET f == calls[c]
            n == Len(f.trace)
        IN  /\ \A i \in 1..n : \A j \in 1..n :
                   i < j => /\ Rank(f.trace[i][1]) < Rank(f.trace[j][1])
                            /\ f.trace[i][2] = None
            /\ n > 0 => f.trace[1][1] = "DB"
            /\ (n > 0 /\ f.trace[1][2] # None) =>
                   /\ n = 1
                   /\ f.pc = "done"
                   /\ f.source = "DB"
                   /\ f.content = f.trace[1][2]
            /\ OverlayBytes(f) # {} => "IPFS" \notin Asked(f)
            /\ f.pc = "done" =>
                   /\ n > 0
                   /\ f.trace[n][2] # None
                   /\ f.content = f.trace[n][2]
                   /\ f.source = SourceOf(f.trace[n][1])

\* C1 witness: a call answered by the distributed network after the store,
\* the stream and the HTTP peers all missed.
C1_Witness ==
    \E c \in Callers :
        /\ calls[c].pc = "done"
        /\ calls[c].source = "IPFS"
        /\ Len(calls[c].trace) = 4

\* C2 (as claimed): once the overlay has handed over corrupted bytes after a
\* store miss and verification has run, the call has failed with
\* InvalidContent and has not written the store.
C2_CorruptOverlayInvalidContent ==
    \A c \in Callers :
        LET f == calls[c]
        IN  (/\ f.pc # "verify_content_hash"
             /\ \E b \in OverlayBytes(f) : Corrupted(b, f.content_hash))
            => /\ f.pc = "failed"
               /\ f.error = "InvalidContent"
               /\ ~f.wrote

\* C2 (amended): in that case the call has failed and has not written the
\* store, whatever store_value is; the failure is InvalidContent under engine
\* storage, InvalidContent or (on a timeout of the CID recomputation)
\* ContentCurrentlyUnavailable under engine ipfs with IPFS enabled, and
\* ValueError under any other engine.
C2_CorruptOverlayFails ==
    \A c \in Callers :
        LET f == calls[c]
        IN  (/\ f.pc # "verify_content_hash"
             /\ \E b \in OverlayBytes(f) : Corrupted(b, f.content_hash))
            => /\ f.pc = "failed"
               /\ ~f.wrote
               /\ f.content = None
               /\ f.error \in
                    IF f.engine = "storage" THEN {"InvalidContent"}
                    ELSE IF f.engine = "ipfs" /\ ipfs_enabled
                         THEN {"InvalidContent", "ContentCurrentlyUnavailable"}
                         ELSE {"ValueError"}

\* C2 witness: a call with store_value = true that failed with InvalidContent
\* on corrupted bytes from the overlay.
C2_Witness ==
    \E c \in Callers :
        /\ calls[c].pc = "failed"
        /\ calls[c].error = "InvalidContent"
        /\ calls[c].store_value
        /\ "pwned" \in OverlayBytes(calls[c])

\* C3: bytes a call is about to cache or has returned with source P2P or
\* IPFS have passed verify_content_hash against the requested hash, and the
\* store holds under a hash only bytes that hash to it.
C3_NetworkBytesVerified ==
    /\ \A c \in Callers :
           LET f == calls[c]
           IN  (f.pc \in {"set_value", "done"} /\ f.source \in {"P2P", "IPFS"})
               => f.content \in f.verified
    /\ \A h \in Hashes : store[h] # None => ~Corrupted(store[h], h)

\* C4: a call started after a resolve of the same hash returned from a
\* non-DB source with store_value = true returns source = DB and the same
\* bytes, asking the store only.
C4_WriteThrough ==
    \A c \in Callers :
        LET f == calls[c]
        IN  (f.prior # {} /\ Settled(f))
            => /\ f.pc = "done"
               /\ f.source = "DB"
               /\ Asked(f) = {"DB"}
               /\ f.prior = {f.content}

\* C5: a call whose set_value raised has nevertheless returned its bytes.
C5_StoreFailureSwallowed ==
    \A c \in Callers :
        calls[c].write_failed => calls[c].pc = "done"

\* The sources a call may ask: the store, the enabled overlay transports
\* when use_network, the distributed network when applicable.
Permitted(f) ==
    {"DB"}
    \cup (IF f.use_network
          THEN {IF t = "protocol" THEN "P2P_STREAM" ELSE "P2P_HTTP" : t \in enabled_clients}
          ELSE {})
    \cup (IF ipfs_enabled /\ f.engine = "ipfs" /\ f.use_ipfs THEN {"IPFS"} ELSE {})

\* C6: when every source asked has answered None and none is left to ask,
\* the call has failed with ContentCurrentlyUnavailable, holds no bytes, has
\* not written the store, and the sources asked are exactly the permitted
\* ones (so also with use_network false or IPFS not applicable).
C6_Unavailable ==
    \A c \in Callers :
        LET f == calls[c]
        IN  (/\ Settled(f)
             /\ \A i \in 1..Len(f.trace) : f.trace[i][2] = None)
            => /\ f.pc = "failed"
               /\ f.error = "ContentCurrentlyUnavailable"
               /\ f.content = None
               /\ ~f.wrote
               /\ Asked(f) = Permitted(f)

\* C6 witness: a call failed with ContentCurrentlyUnavailable after all four
\* sources answered None.
C6_Witness ==
    \E c \in Callers :
        /\ calls[c].pc = "failed"
        /\ calls[c].error = "ContentCurrentlyUnavailable"
        /\ Len(calls[c].trace) = 4
        /\ \A i \in 1..4 : calls[c].trace[i][2] = None

(***************************************************************************)
(* jobs.py: the pending-message worker.                                     *)
(*                                                                          *)
(* Bounds.  MessageBatch stands for the 200 of line 55 and QueryLimit for  *)
(* the 1000 of lines 51 and 117, scaled down so that a sweep drains in the *)
(* loop and again after it with a handful of records.                      *)
(***************************************************************************)
MaxPending == 4

QueryLimit == 3

MessageBatch == 1

MaxSweeps == 2

MsgIds == 1..MaxPending

Sweeps == 1..MaxSweeps

\* The `time` field the queue is sorted by: later _ids are not later in
\* time, and two records share a time.
TimeOf(id) == IF id = 1 THEN 2 ELSE 1

\* retry_messages_job lines 43-47: the keys of seen_ids.
SEEN_IDS_CHAINS == {"NULS", "ETH", "BNB"}

msg_vars ==
    <<pending_messages, msg_chain, msg_pc, msg_sweep, msg_cursor, msg_i,
      msg_tasks, msg_final, msg_actions, msg_handlers, msg_hist>>

SeqToSet(q) == {q[k] : k \in 1..Len(q)}

\* Sequences without repetition over the set S, of length n.
Arrangements(S, n) ==
    {q \in [1..n -> S] : \A a \in 1..n : \A b \in 1..n : a # b => q[a] # q[b]}

Min(a, b) == IF a < b THEN a ELSE b

\* The records come in any order.
find_any_order(coll, limit) == Arrangements(coll, Min(limit, Cardinality(coll)))

\* lines 35 and 106, collection.bulk_write(actions_list): the operations go
\* to the server in one ordered request, in the order of the list.
bulk_write_requests(actions_list) == actions_list

(***************************************************************************)
(* collection.find().sort([('time', 1)]).limit(limit): the records of the  *)
(* collection by ascending time, the first `limit` of them; records of     *)
(* equal time come in any order.                                            *)
(***************************************************************************)
find_sorted(coll, limit) ==
    {q \in Arrangements(coll, Min(limit, Cardinality(coll))) :
        /\ \A a \in 1..Len(q) : \A b \in 1..Len(q) :
               a < b => TimeOf(q[a]) <= TimeOf(q[b])
        /\ \A r \in coll \ SeqToSet(q) : \A a \in 1..Len(q) :
               TimeOf(q[a]) <= TimeOf(r)}

\* line 22: `result is True`
is_handled_any_result(result) == result # "raise"

is_handled(result) == result = "True"

\* lines 55 and 121: `i > 200`, `i > 100`
batch_full(i, batch) == i > batch

lock_vars == <<RETRY_LOCK>>

\* line 9: RETRY_LOCK = asyncio.Lock(), created free; no line of the
\* package acquires or releases it.
LockInit == RETRY_LOCK = [locked |-> FALSE, waiters |-> <<>>]

\* A sweep is started whatever the task is doing.
sweep_may_start_anytime(pc) == TRUE

\* lines 63-69 and 129-136: the loop awaits the job and the sleep before
\* its next turn, so a sweep starts from the sleep of the previous turn
\* only.
sweep_may_start(pc) == pc = "sleep"

\* The task exits its loop on a failed sweep.
after_sweep_failure_exit == "exited"

\* retry_messages_task lines 64-69 and handle_txs_task lines 130-136: an
\* exception that leaves the sweep is caught and logged, and the task goes
\* on to its sleep and to the next turn of `while True`.
after_sweep_failure == "sleep"

\* asyncio.gather without return_exceptions: the awaiting coroutine resumes
\* when every gathered task has finished, or as soon as one has raised (the
\* others keep running).
Finished(st) == st \in {"True", "other", "raised"}

gather_resumes(tasks, handlers) ==
    \/ \A k \in 1..Len(tasks) : Finished(handlers[tasks[k]])
    \/ \E k \in 1..Len(tasks) : handlers[tasks[k]] = "raised"

(***************************************************************************)
(* join_pending_message_tasks, lines 28-34, entered with the given tasks   *)
(* list: gather starts the coroutines; with no task the gather is done at  *)
(* once and the join goes on to the flush.                                  *)
(***************************************************************************)
MsgAfterJoin(final) ==
    IF final
    THEN /\ msg_pc' = "sleep"
         /\ UNCHANGED msg_i
    ELSE /\ msg_pc' = "iterate"
         /\ msg_i' = 0

MsgFlush(final) ==
    IF Len(msg_actions[msg_sweep]) > 0
    THEN /\ msg_pc' = "bulk_write"
         /\ UNCHANGED msg_i
    ELSE MsgAfterJoin(final)

MsgJoin(tasks, final) ==
    /\ msg_final' = final
    /\ IF Len(tasks) > 0
       THEN /\ msg_pc' = "gather"
            /\ msg_tasks' = tasks
            /\ msg_handlers' = [t \in DOMAIN msg_handlers |->
                                  IF t \in SeqToSet(tasks) /\ msg_handlers[t] = "created"
                                  THEN "running" ELSE msg_handlers[t]]
            /\ UNCHANGED msg_i
       ELSE /\ msg_tasks' = <<>>
            /\ UNCHANGED msg_handlers
            /\ MsgFlush(final)

\* retry_messages_task line 65 and retry_messages_job lines 43-51: a sweep
\* starts and opens its cursor.
MsgStartSweep ==
    /\ sweep_may_start(msg_pc)
    /\ msg_sweep < MaxSweeps
    /\ msg_sweep' = msg_sweep + 1
    /\ \E q \in find_sorted(pending_messages, QueryLimit) : msg_cursor' = q
    /\ msg_i' = 0
    /\ msg_tasks' = <<>>
    /\ msg_final' = FALSE
    /\ msg_actions' = [msg_actions EXCEPT ![msg_sweep + 1] = <<>>]
    /\ msg_pc' = "iterate"
    /\ UNCHANGED <<pending_messages, msg_chain, msg_handlers, msg_hist>>

\* lines 51-57: the cursor yields a record, its coroutine joins tasks, and a
\* full batch is joined.
MsgLaunch ==
    /\ msg_pc = "iterate"
    /\ Len(msg_cursor) > 0
    /\ LET pending == Head(msg_cursor)
           t == <<msg_sweep, pending>>
           tasks == Append(msg_tasks, t)
       IN  /\ msg_cursor' = Tail(msg_cursor)
           /\ IF batch_full(msg_i + 1, MessageBatch)
              THEN /\ msg_handlers' = [t2 \in DOMAIN msg_handlers |->
                                         IF t2 \in SeqToSet(tasks) THEN "running"
                                         ELSE msg_handlers[t2]]
                   /\ msg_tasks' = tasks
                   /\ msg_final' = FALSE
                   /\ msg_pc' = "gather"
                   /\ msg_i' = msg_i + 1
              ELSE /\ msg_handlers' = [msg_handlers EXCEPT ![t] = "created"]
                   /\ msg_tasks' = tasks
                   /\ msg_i' = msg_i + 1
                   /\ UNCHANGED <<msg_pc, msg_final>>
    /\ UNCHANGED <<pending_messages, msg_chain, msg_sweep, msg_actions, msg_hist>>

\* line 59: the cursor is exhausted; the final join.
MsgFinalJoin ==
    /\ msg_pc = "iterate"
    /\ Len(msg_cursor) = 0
    /\ MsgJoin(msg_tasks, TRUE)
    /\ UNCHANGED <<pending_messages, msg_chain, msg_sweep, msg_cursor,
                   msg_actions, msg_hist>>

\* handle_pending_message, lines 12-24: seen_ids[chain_name] raises KeyError
\* for a chain outside seen_ids; else incoming returns True, returns
\* something else, or raises; on True the delete joins the sweep's actions.
handle_pending_message(s, pending) ==
    /\ msg_handlers[<<s, pending>>] = "running"
    /\ \E result \in (IF msg_chain[pending] \in SEEN_IDS_CHAINS
                      THEN {"True", "other", "raise"} ELSE {"raise"}) :
         /\ msg_handlers' = [msg_handlers EXCEPT ![<<s, pending>>] =
                               IF result = "raise" THEN "raised" ELSE result]
         /\ msg_actions' = IF is_handled(result)
                            THEN [msg_actions EXCEPT ![s] = Append(@, pending)]
                            ELSE msg_actions
         /\ msg_hist' = [msg_hist EXCEPT
                           !.deletes[pending] = IF is_handled(result) THEN @ + 1 ELSE @,
                           !.invoked[<<s, pending>>] =
                               msg_chain[pending] \in SEEN_IDS_CHAINS]
    /\ UNCHANGED <<pending_messages, msg_chain, msg_pc, msg_sweep, msg_cursor,
                   msg_i, msg_tasks, msg_final>>

\* join_pending_message_tasks, lines 28-34: the gather is over (or one task
\* raised); tasks is cleared.
MsgGatherDone ==
    /\ msg_pc = "gather"
    /\ gather_resumes(msg_tasks, msg_handlers)
    /\ msg_tasks' = <<>>
    /\ MsgFlush(msg_final)
    /\ UNCHANGED <<pending_messages, msg_chain, msg_sweep, msg_cursor,
                   msg_final, msg_actions, msg_handlers, msg_hist>>

\* line 35: the collection applies the deletes of the actions list, or the
\* write raises and the exception leaves the sweep (line 66).
MsgBulkWrite ==
    /\ msg_pc = "bulk_write"
    /\ \/ /\ pending_messages' = pending_messages \ SeqToSet(msg_actions[msg_sweep])
          /\ msg_hist' = [msg_hist EXCEPT
                 !.submitted = bulk_write_requests(msg_actions[msg_sweep]),
                 !.removed = [r \in MsgIds |->
                                IF r \in pending_messages
                                   /\ r \in SeqToSet(msg_actions[msg_sweep])
                                THEN msg_sweep ELSE msg_hist.removed[r]]]
          /\ msg_pc' = "bulk_written"
       \/ /\ msg_pc' = after_sweep_failure
          /\ msg_hist' = [msg_hist EXCEPT !.write_failed = TRUE]
          /\ UNCHANGED pending_messages
    /\ UNCHANGED <<msg_chain, msg_sweep, msg_cursor, msg_i, msg_tasks,
                   msg_final, msg_actions, msg_handlers>>

\* line 36, then back to line 57 or out of line 59: bulk_write has returned.
MsgBulkWritten ==
    /\ msg_pc = "bulk_written"
    /\ msg_actions' = [msg_actions EXCEPT ![msg_sweep] = <<>>]
    /\ MsgAfterJoin(msg_final)
    /\ UNCHANGED <<pending_messages, msg_chain, msg_sweep, msg_cursor,
                   msg_tasks, msg_final, msg_handlers, msg_hist>>

\* line 51: the cursor raises instead of yielding (the query or a fetch
\* fails); the exception leaves the sweep (line 66) and the coroutines
\* already in tasks are never run.
MsgCursorFails ==
    /\ msg_pc = "iterate"
    /\ msg_pc' = after_sweep_failure
    /\ msg_cursor' = <<>>
    /\ msg_tasks' = <<>>
    /\ UNCHANGED <<pending_messages, msg_chain, msg_sweep, msg_i, msg_final,
                   msg_actions, msg_handlers, msg_hist>>

MessagesStart ==
    /\ pending_messages = MsgIds
    /\ msg_chain \in [MsgIds -> {"ETH", None}]
    /\ msg_pc = "sleep"
    /\ msg_sweep = 0
    /\ msg_cursor = <<>>
    /\ msg_i = 0
    /\ msg_tasks = <<>>
    /\ msg_final = FALSE
    /\ msg_actions = [s \in Sweeps |-> <<>>]
    /\ msg_handlers = [t \in Sweeps \X MsgIds |-> "none"]
    /\ msg_hist = [deletes |-> [r \in MsgIds |-> 0],
                   removed |-> [r \in MsgIds |-> 0],
                   invoked |-> [t \in Sweeps \X MsgIds |-> FALSE],
                   submitted |-> <<>>,
                   write_failed |-> FALSE]

\* No sweep ever starts: the worker at rest, for the other specifications.
MessagesQuiet ==
    /\ pending_messages = {}
    /\ msg_chain = [r \in MsgIds |-> "ETH"]
    /\ msg_pc = "sleep"
    /\ msg_sweep = MaxSweeps
    /\ msg_cursor = <<>>
    /\ msg_i = 0
    /\ msg_tasks = <<>>
    /\ msg_final = FALSE
    /\ msg_actions = [s \in Sweeps |-> <<>>]
    /\ msg_handlers = [t \in Sweeps \X MsgIds |-> "none"]
    /\ msg_hist = [deletes |-> [r \in MsgIds |-> 0],
                   removed |-> [r \in MsgIds |-> 0],
                   invoked |-> [t \in Sweeps \X MsgIds |-> FALSE],
                   submitted |-> <<>>,
                   write_failed |-> FALSE]


(***************************************************************************)
(* jobs.py: the pending-tx worker.  TxBatch stands for the 100 of line 121,*)
(* scaled like MessageBatch.                                                *)
(***************************************************************************)
MaxPendingTxs == 2

TxBatch == 1

MaxExtracted == 2

TxIds == 1..MaxPendingTxs

\* The `time` field PendingTX is sorted by.
TxTimeOf(id) == IF id = 1 THEN 2 ELSE 1

\* pending['context'] of a pending-tx.
TxContext(id) ==
    [chain_name |-> "ETH", tx_hash |-> id, height |-> 10 * id, time |-> 100 + id]

tx_vars ==
    <<pending_txs, message_inserts, tx_pc, tx_sweep, tx_cursor, tx_i,
      tx_tasks, tx_final, tx_actions, tx_handlers, tx_hist>>

\* find().sort([('time', 1)]).limit(limit) on PendingTX.collection
find_txs_sorted(coll, limit) ==
    {q \in Arrangements(coll, Min(limit, Cardinality(coll))) :
        /\ \A a \in 1..Len(q) : \A b \in 1..Len(q) :
               a < b => TxTimeOf(q[a]) <= TxTimeOf(q[b])
        /\ \A r \in coll \ SeqToSet(q) : \A a \in 1..Len(q) :
               TxTimeOf(q[a]) <= TxTimeOf(r)}

\* What get_chaindata_messages may return: a list of k messages, a value
\* that is neither a list nor None, or None.
NotReturned == [kind |-> "pending", k |-> 0]

ExtractorResults ==
    {[kind |-> "list", k |-> k] : k \in 0..MaxExtracted}
    \cup {[kind |-> "sentinel", k |-> 0], [kind |-> "null", k |-> 0]}

\* The last message of the list gets no InsertOne.
message_actions_drop_last(pending, k) ==
    [j \in 1..(k - 1) |->
        [message |-> [body |-> <<pending, j>>, time |-> TxContext(pending).time],
         source |-> [chain_name |-> TxContext(pending).chain_name,
                     tx_hash |-> TxContext(pending).tx_hash,
                     height |-> TxContext(pending).height,
                     check_message |-> TRUE]]]

\* lines 76-88: the InsertOne documents built from a list of k messages.
message_actions(pending, k) ==
    [j \in 1..k |->
        [message |-> [body |-> <<pending, j>>, time |-> TxContext(pending).time],
         source |-> [chain_name |-> TxContext(pending).chain_name,
                     tx_hash |-> TxContext(pending).tx_hash,
                     height |-> TxContext(pending).height,
                     check_message |-> TRUE]]]

\* line 93: `messages is not None`
is_removable(messages) == messages.kind # "null"

TxFinished(h) == h.st \in {"done", "raised"}

tx_gather_resumes(tasks, handlers) ==
    \/ \A k \in 1..Len(tasks) : TxFinished(handlers[tasks[k]])
    \/ \E k \in 1..Len(tasks) : handlers[tasks[k]].st = "raised"

\* join_pending_txs_tasks, lines 99-107
TxAfterJoin(final) ==
    IF final
    THEN /\ tx_pc' = "sleep"
         /\ UNCHANGED tx_i
    ELSE /\ tx_pc' = "iterate"
         /\ tx_i' = 0

TxFlush(final) ==
    IF Len(tx_actions[tx_sweep]) > 0
    THEN /\ tx_pc' = "bulk_write"
         /\ UNCHANGED tx_i
    ELSE TxAfterJoin(final)

TxJoin(tasks, final) ==
    /\ tx_final' = final
    /\ IF Len(tasks) > 0
       THEN /\ tx_pc' = "gather"
            /\ tx_tasks' = tasks
            /\ tx_handlers' = [t \in DOMAIN tx_handlers |->
                                 IF t \in SeqToSet(tasks) /\ tx_handlers[t].st = "created"
                                 THEN [tx_handlers[t] EXCEPT !.st = "running"]
                                 ELSE tx_handlers[t]]
            /\ UNCHANGED tx_i
       ELSE /\ tx_tasks' = <<>>
            /\ UNCHANGED tx_handlers
            /\ TxFlush(final)

\* handle_txs_task line 132 and handle_txs_job lines 114-117
TxStartSweep ==
    /\ sweep_may_start(tx_pc)
    /\ tx_sweep < MaxSweeps
    /\ tx_sweep' = tx_sweep + 1
    /\ \E q \in find_txs_sorted(pending_txs, QueryLimit) : tx_cursor' = q
    /\ tx_i' = 0
    /\ tx_tasks' = <<>>
    /\ tx_final' = FALSE
    /\ tx_actions' = [tx_actions EXCEPT ![tx_sweep + 1] = <<>>]
    /\ tx_pc' = "iterate"
    /\ UNCHANGED <<pending_txs, message_inserts, tx_handlers, tx_hist>>

\* lines 117-123
TxLaunch ==
    /\ tx_pc = "iterate"
    /\ Len(tx_cursor) > 0
    /\ LET pending == Head(tx_cursor)
           t == <<tx_sweep, pending>>
           tasks == Append(tx_tasks, t)
       IN  /\ tx_cursor' = Tail(tx_cursor)
           /\ tx_i' = tx_i + 1
           /\ tx_tasks' = tasks
           /\ IF batch_full(tx_i + 1, TxBatch)
              THEN /\ tx_handlers' = [t2 \in DOMAIN tx_handlers |->
                                        IF t2 \in SeqToSet(tasks)
                                        THEN [tx_handlers[t2] EXCEPT !.st = "running"]
                                        ELSE tx_handlers[t2]]
                   /\ tx_final' = FALSE
                   /\ tx_pc' = "gather"
              ELSE /\ tx_handlers' = [tx_handlers EXCEPT ![t].st = "created"]
                   /\ UNCHANGED <<tx_pc, tx_final>>
    /\ UNCHANGED <<pending_txs, message_inserts, tx_sweep, tx_actions, tx_hist>>

\* line 125
TxFinalJoin ==
    /\ tx_pc = "iterate"
    /\ Len(tx_cursor) = 0
    /\ TxJoin(tx_tasks, TRUE)
    /\ UNCHANGED <<pending_txs, message_inserts, tx_sweep, tx_cursor,
                   tx_actions, tx_hist>>

\* handle_pending_tx, lines 73-95 up to the bulk write of line 91:
\* get_chaindata_messages returns or raises.  A non-empty list suspends the
\* task at the bulk write; otherwise lines 93-95 run at once.
handle_pending_tx(s, pending) ==
    /\ tx_handlers[<<s, pending>>].st = "running"
    /\ \/ \E messages \in ExtractorResults :
            IF messages.kind = "list" /\ messages.k > 0
            THEN /\ tx_handlers' = [tx_handlers EXCEPT ![<<s, pending>>] =
                                      [st |-> "bulk_write", messages |-> messages]]
                 /\ UNCHANGED tx_actions
            ELSE /\ tx_handlers' = [tx_handlers EXCEPT ![<<s, pending>>] =
                                      [st |-> "done", messages |-> messages]]
                 /\ tx_actions' = IF is_removable(messages)
                                  THEN [tx_actions EXCEPT ![s] = Append(@, pending)]
                                  ELSE tx_actions
       \/ /\ tx_handlers' = [tx_handlers EXCEPT ![<<s, pending>>].st = "raised"]
          /\ UNCHANGED tx_actions
    /\ UNCHANGED <<pending_txs, message_inserts, tx_pc, tx_sweep, tx_cursor,
                   tx_i, tx_tasks, tx_final, tx_hist>>

\* lines 91-95: PendingMessage.collection.bulk_write(message_actions) inserts
\* the documents in order and returns, or raises after some of them.
TxInsertMessages(s, pending) ==
    /\ tx_handlers[<<s, pending>>].st = "bulk_write"
    /\ LET messages == tx_handlers[<<s, pending>>].messages
           docs == message_actions(pending, messages.k)
       IN  \/ /\ message_inserts' = message_inserts \o docs
              /\ tx_hist' = [tx_hist EXCEPT !.inserted[<<s, pending>>] = @ + messages.k]
              /\ tx_handlers' = [tx_handlers EXCEPT ![<<s, pending>>].st = "done"]
              /\ tx_actions' = IF is_removable(messages)
                               THEN [tx_actions EXCEPT ![s] = Append(@, pending)]
                               ELSE tx_actions
           \/ \E n \in 0..(messages.k - 1) :
                 /\ message_inserts' = message_inserts \o SubSeq(docs, 1, n)
                 /\ tx_hist' = [tx_hist EXCEPT !.inserted[<<s, pending>>] = @ + n,
                                               !.write_failed = TRUE]
                 /\ tx_handlers' = [tx_handlers EXCEPT ![<<s, pending>>].st = "raised"]
                 /\ UNCHANGED tx_actions
    /\ UNCHANGED <<pending_txs, tx_pc, tx_sweep, tx_cursor, tx_i, tx_tasks, tx_final>>

\* join_pending_txs_tasks, lines 99-105
TxGatherDone ==
    /\ tx_pc = "gather"
    /\ tx_gather_resumes(tx_tasks, tx_handlers)
    /\ tx_tasks' = <<>>
    /\ TxFlush(tx_final)
    /\ UNCHANGED <<pending_txs, message_inserts, tx_sweep, tx_cursor, tx_final,
                   tx_actions, tx_handlers, tx_hist>>

\* line 106: PendingTX.collection.bulk_write(actions_list) applies the
\* deletes, or raises and the exception leaves the sweep (line 133).
TxBulkWrite ==
    /\ tx_pc = "bulk_write"
    /\ \/ /\ pending_txs' = pending_txs \ SeqToSet(tx_actions[tx_sweep])
          /\ tx_hist' = [tx_hist EXCEPT
                 !.submitted = bulk_write_requests(tx_actions[tx_sweep]),
                 !.written = [t \in DOMAIN tx_hist.written |->
                     tx_hist.written[t]
                     + (IF t[1] = tx_sweep
                        THEN Cardinality({k \in 1..Len(tx_actions[tx_sweep]) :
                                            tx_actions[tx_sweep][k] = t[2]})
                        ELSE 0)]]
          /\ tx_pc' = "bulk_written"
       \/ /\ tx_pc' = after_sweep_failure
          /\ tx_hist' = [tx_hist EXCEPT !.write_failed = TRUE]
          /\ UNCHANGED pending_txs
    /\ UNCHANGED <<message_inserts, tx_sweep, tx_cursor, tx_i, tx_tasks,
                   tx_final, tx_actions, tx_handlers>>

\* line 107, then back to line 123 or out of line 125
TxBulkWritten ==
    /\ tx_pc = "bulk_written"
    /\ tx_actions' = [tx_actions EXCEPT ![tx_sweep] = <<>>]
    /\ TxAfterJoin(tx_final)
    /\ UNCHANGED <<pending_txs, message_inserts, tx_sweep, tx_cursor,
                   tx_tasks, tx_final, tx_handlers, tx_hist>>

\* line 117: the cursor raises instead of yielding; the exception leaves
\* the sweep (line 133).
TxCursorFails ==
    /\ tx_pc = "iterate"
    /\ tx_pc' = after_sweep_failure
    /\ tx_cursor' = <<>>
    /\ tx_tasks' = <<>>
    /\ UNCHANGED <<pending_txs, message_inserts, tx_sweep, tx_i, tx_final,
                   tx_actions, tx_handlers, tx_hist>>

TxsIdle(queue, sweep) ==
    /\ pending_txs = queue
    /\ message_inserts = <<>>
    /\ tx_pc = "sleep"
    /\ tx_sweep = sweep
    /\ tx_cursor = <<>>
    /\ tx_i = 0
    /\ tx_tasks = <<>>
    /\ tx_final = FALSE
    /\ tx_actions = [s \in Sweeps |-> <<>>]
    /\ tx_handlers = [t \in Sweeps \X TxIds |-> [st |-> "none", messages |-> NotReturned]]
    /\ tx_hist = [inserted |-> [t \in Sweeps \X TxIds |-> 0],
                  written |-> [t \in Sweeps \X TxIds |-> 0],
                  submitted |-> <<>>,
                  write_failed |-> FALSE]

TxsStart == TxsIdle(TxIds, 0)

\* No sweep ever starts: the worker at rest, for the other specifications.
TxsQuiet == TxsIdle({}, MaxSweeps)

(***************************************************************************)
(* network.py: check_message.  A message is a mapping; `has` gives for     *)
(* each field whether the mapping lacks it ("absent"), holds a string      *)
(* ("str") or holds a value of another type ("other"), and the fields the  *)
(* code reads hold their string when they have one.  One call is followed  *)
(* from await to await.                                                     *)
(***************************************************************************)
net_vars == <<net>>

\* line 14
MAX_INLINE_SIZE == 200000

\* lines 16-26
INCOMING_MESSAGE_AUTHORIZED_FIELDS ==
    {"item_hash", "item_content", "item_type", "chain", "channel", "sender",
     "type", "time", "signature"}

\* The fields a message may carry: the authorized ones, hash_type (read at
\* line 88) and a field nobody asked for.
Fields == INCOMING_MESSAGE_AUTHORIZED_FIELDS \cup {"hash_type", "confirmations"}

\* The inline contents, and len() of each (line 83).
InlineContents == {"a", "b", "limit", "over"}

content_len(c) ==
    CASE c = "a" -> 1
      [] c = "b" -> 1
      [] c = "limit" -> MAX_INLINE_SIZE
      [] c = "over" -> MAX_INLINE_SIZE + 1
      [] OTHER -> 0

\* A string that is the sha256 of no content of the model.
JunkHash == <<"junk">>

\* line 120: the chains of VERIFIER_REGISTER.
VERIFIER_REGISTER == {"ETH"}

NoMessage ==
    [has |-> [f \in Fields |-> "absent"], item_hash |-> NoHash,
     item_content |-> "", chain |-> "", hash_type |-> "", item_type |-> ""]

\* The messages check_message is called with.
Messages ==
    {[has |-> [f \in Fields |->
                 CASE f = "item_hash" -> ih[1]
                   [] f = "item_content" -> ic[1]
                   [] f = "chain" -> ch[1]
                   [] f = "hash_type" -> ht[1]
                   [] f = "sender" -> snd
                   [] f = "signature" -> sig
                   [] f = "channel" -> chn
                   [] f = "confirmations" -> extra
                   [] f = "item_type" -> "absent"
                   [] f = "type" -> "str"
                   [] OTHER -> "other"],
      item_hash |-> ih[2], item_content |-> ic[2], chain |-> ch[2],
      hash_type |-> ht[2], item_type |-> ""] :
        ih \in {<<"absent", NoHash>>, <<"other", NoHash>>, <<"str", JunkHash>>,
                <<"str", get_sha256("a")>>, <<"str", get_sha256("limit")>>},
        ic \in {<<"absent", "">>} \cup {<<"str", c>> : c \in InlineContents},
        ch \in {<<"absent", "">>, <<"other", "">>, <<"str", "ETH">>, <<"str", "DOGE">>},
        ht \in {<<"absent", "">>, <<"str", "sha256">>, <<"str", "md5">>},
        snd \in {"absent", "other", "str"},
        sig \in {"absent", "other", "str"},
        chn \in {"absent", "other", "str"},
        extra \in {"absent", "other"}}

\* What a call ends with: the message returned, None, or an exception; for
\* None, the line of the return.
Envelope(m) == [kind |-> "envelope", exc |-> None, line |-> 0, message |-> m]

Rejected(line) == [kind |-> "null", exc |-> None, line |-> line, message |-> NoMessage]

Raised(exc, line) == [kind |-> "raise", exc |-> exc, line |-> line, message |-> NoMessage]

NoResult == [kind |-> "pending", exc |-> None, line |-> 0, message |-> NoMessage]

\* lines 61-80: message["f"] raises KeyError on a mapping without f and
\* isinstance(..., str) rejects another type; channel is read with get.
\* The result the checks end the call with, NoResult when they all pass.
shape_check(m) ==
    IF m.has["item_hash"] = "absent" THEN Raised("KeyError", 61)
    ELSE IF m.has["item_hash"] # "str" THEN Rejected(63)
    ELSE IF m.has["chain"] = "absent" THEN Raised("KeyError", 65)
    ELSE IF m.has["chain"] # "str" THEN Rejected(67)
    ELSE IF m.has["channel"] = "other" THEN Rejected(72)
    ELSE IF m.has["sender"] = "absent" THEN Raised("KeyError", 74)
    ELSE IF m.has["sender"] # "str" THEN Rejected(76)
    ELSE IF m.has["signature"] = "absent" THEN Raised("KeyError", 78)
    ELSE IF m.has["signature"] # "str" THEN Rejected(80)
    ELSE NoResult

\* The size check rejects a content of exactly MAX_INLINE_SIZE.
too_long_at_limit(c) == content_len(c) >= MAX_INLINE_SIZE

\* line 83
too_long(c) == content_len(c) > MAX_INLINE_SIZE

\* line 88: message.get("hash_type", "sha256") == "sha256"
hash_type_is_sha256(m) ==
    \/ m.has["hash_type"] = "absent"
    \/ m.has["hash_type"] = "str" /\ m.hash_type = "sha256"

\* Every content passes for the declared hash.
hash_matches_always(m) == TRUE

\* lines 91-95
hash_matches(m) == m.item_hash = get_sha256(m.item_content)

\* line 106, ItemType.from_hash: the item type of a hash, or ValueError.
from_hash(h) == IF h = JunkHash THEN "ValueError" ELSE "storage"

\* lines 105-108
classify(m) ==
    IF from_hash(m.item_hash) = "ValueError" THEN m
    ELSE [m EXCEPT !.has["item_type"] = "str", !.item_type = from_hash(m.item_hash)]

\* The message is handed on with all its fields.
project_nothing(m) == m

\* lines 115-117: the fields outside the whitelist are dropped.
project(m) ==
    [m EXCEPT !.has = [f \in Fields |->
                         IF f \in INCOMING_MESSAGE_AUTHORIZED_FIELDS
                         THEN m.has[f] ELSE "absent"],
              !.hash_type = ""]

Return(result) ==
    net' = [net EXCEPT !.pc = "done", !.result = result]

\* lines 110-118: a trusted message is returned as it is; another is
\* projected and the coroutine yields.
AfterItemType(m) ==
    IF net.trusted
    THEN Return(Envelope(m))
    ELSE net' = [net EXCEPT !.pc = "verify", !.message = project(m)]

\* lines 61-86 (or 61-118 for a message without inline content): up to the
\* first await.
CheckShape ==
    /\ net.pc = "start"
    /\ LET m == net.message
       IN  IF shape_check(m).kind # "pending" THEN Return(shape_check(m))
           ELSE IF m.has["item_content"] # "absent"
                THEN IF too_long(m.item_content)
                     THEN Return(Rejected(85))
                     ELSE net' = [net EXCEPT !.pc = "inline"]
                ELSE AfterItemType(classify(m))

\* lines 88-118: the hash of the inline content.
CheckInline ==
    /\ net.pc = "inline"
    /\ LET m == net.message
       IN  IF hash_type_is_sha256(m)
           THEN IF ~net.trusted /\ ~hash_matches(m)
                THEN Return(Rejected(97))
                ELSE AfterItemType([m EXCEPT !.has["item_type"] = "str",
                                             !.item_type = "inline"])
           ELSE Return(Rejected(100))

\* lines 119-129: the verifier of the chain is looked up and awaited; it
\* returns True or False or raises ValueError.
Verify ==
    /\ net.pc = "verify"
    /\ LET m == net.message
       IN  IF m.chain \notin VERIFIER_REGISTER
           THEN Return(Rejected(123))
           ELSE \E verdict \in {"True", "False", "ValueError"} :
                  net' = [net EXCEPT
                            !.pc = "done",
                            !.signer_arg = m,
                            !.verdict = verdict,
                            !.result = CASE verdict = "True" -> Envelope(m)
                                         [] verdict = "False" -> Rejected(125)
                                         [] OTHER -> Rejected(129)]

NetIdle(pc, m, trusted, from_chain, from_network) ==
    net = [pc |-> pc, input |-> m, message |-> m, trusted |-> trusted,
           from_chain |-> from_chain, from_network |-> from_network,
           signer_arg |-> NoMessage, verdict |-> "none", result |-> NoResult]

NetworkStart ==
    \E m \in Messages, trusted \in BOOLEAN, from_chain \in BOOLEAN,
       from_network \in BOOLEAN :
        NetIdle("start", m, trusted, from_chain, from_network)

\* check_message is never called: for the other specifications.
NetworkQuiet == NetIdle("done", NoMessage, FALSE, FALSE, FALSE)

(***************************************************************************)
(* The specifications.                                                      *)
(***************************************************************************)
vars == <<storage_vars, msg_vars, tx_vars, net_vars, lock_vars, verify_vars>>

StorageNext ==
    \/ \E c \in Callers : Call(c) /\ UNCHANGED <<msg_vars, tx_vars, net_vars, lock_vars, verify_vars>>
    \/ \E c \in Callers : GetValue(c) /\ UNCHANGED <<msg_vars, tx_vars, net_vars, lock_vars, verify_vars>>
    \/ \E c \in Callers : StreamerRequestHash(c) /\ UNCHANGED <<msg_vars, tx_vars, net_vars, lock_vars, verify_vars>>
    \/ \E c \in Callers : P2pHttpRequestHash(c) /\ UNCHANGED <<msg_vars, tx_vars, net_vars, lock_vars, verify_vars>>
    \/ \E c \in Callers : VerifyContentHash(c) /\ UNCHANGED <<msg_vars, tx_vars, net_vars, lock_vars, verify_vars>>
    \/ \E c \in Callers : GetIpfsContent(c) /\ UNCHANGED <<msg_vars, tx_vars, net_vars, lock_vars, verify_vars>>
    \/ \E c \in Callers : SetValue(c) /\ UNCHANGED <<msg_vars, tx_vars, net_vars, lock_vars, verify_vars>>

InitStorage == StorageInit /\ MessagesQuiet /\ TxsQuiet /\ NetworkQuiet /\ LockInit /\ VerifyQuiet

SpecStorage == InitStorage /\ [][StorageNext]_vars

MessagesNext ==
    \/ MsgStartSweep /\ UNCHANGED <<storage_vars, tx_vars, net_vars, lock_vars, verify_vars>>
    \/ MsgLaunch /\ UNCHANGED <<storage_vars, tx_vars, net_vars, lock_vars, verify_vars>>
    \/ MsgFinalJoin /\ UNCHANGED <<storage_vars, tx_vars, net_vars, lock_vars, verify_vars>>
    \/ \E s \in Sweeps, pending \in MsgIds :
           handle_pending_message(s, pending) /\ UNCHANGED <<storage_vars, tx_vars, net_vars, lock_vars, verify_vars>>
    \/ MsgGatherDone /\ UNCHANGED <<storage_vars, tx_vars, net_vars, lock_vars, verify_vars>>
    \/ MsgBulkWrite /\ UNCHANGED <<storage_vars, tx_vars, net_vars, lock_vars, verify_vars>>
    \/ MsgBulkWritten /\ UNCHANGED <<storage_vars, tx_vars, net_vars, lock_vars, verify_vars>>

InitMessages == MessagesStart /\ StorageQuiet /\ TxsQuiet /\ NetworkQuiet /\ LockInit /\ VerifyQuiet

SpecMessages == InitMessages /\ [][MessagesNext]_vars

TxsNext ==
    \/ TxStartSweep /\ UNCHANGED <<storage_vars, msg_vars, net_vars, lock_vars, verify_vars>>
    \/ TxLaunch /\ UNCHANGED <<storage_vars, msg_vars, net_vars, lock_vars, verify_vars>>
    \/ TxFinalJoin /\ UNCHANGED <<storage_vars, msg_vars, net_vars, lock_vars, verify_vars>>
    \/ \E s \in Sweeps, pending \in TxIds :
           handle_pending_tx(s, pending) /\ UNCHANGED <<storage_vars, msg_vars, net_vars, lock_vars, verify_vars>>
    \/ \E s \in Sweeps, pending \in TxIds :
           TxInsertMessages(s, pending) /\ UNCHANGED <<storage_vars, msg_vars, net_vars, lock_vars, verify_vars>>
    \/ TxGatherDone /\ UNCHANGED <<storage_vars, msg_vars, net_vars, lock_vars, verify_vars>>
    \/ TxBulkWrite /\ UNCHANGED <<storage_vars, msg_vars, net_vars, lock_vars, verify_vars>>
    \/ TxBulkWritten /\ UNCHANGED <<storage_vars, msg_vars, net_vars, lock_vars, verify_vars>>

InitTxs == TxsStart /\ StorageQuiet /\ MessagesQuiet /\ NetworkQuiet /\ LockInit /\ VerifyQuiet

SpecTxs == InitTxs /\ [][TxsNext]_vars

(***************************************************************************)
(* The two worker tasks of start_jobs with their loops: every sweep may    *)
(* also fail in its cursor.  The tasks share no control state, and a       *)
(* behaviour follows one of them.  The only fairness assumed is that the   *)
(* sleep of line 69 (136) returns and the loop takes its next turn.        *)
(***************************************************************************)
TasksNext ==
    \/ MessagesNext
    \/ MsgCursorFails /\ UNCHANGED <<storage_vars, tx_vars, net_vars, lock_vars, verify_vars>>
    \/ TxsNext
    \/ TxCursorFails /\ UNCHANGED <<storage_vars, msg_vars, net_vars, lock_vars, verify_vars>>

InitTasks ==
    /\ StorageQuiet
    /\ NetworkQuiet
    /\ LockInit
    /\ VerifyQuiet
    /\ \/ MessagesStart /\ TxsQuiet
       \/ MessagesQuiet /\ TxsStart

SpecTasks ==
    /\ InitTasks
    /\ [][TasksNext]_vars
    /\ WF_vars(MsgStartSweep /\ UNCHANGED <<storage_vars, tx_vars, net_vars, lock_vars, verify_vars>>)
    /\ WF_vars(TxStartSweep /\ UNCHANGED <<storage_vars, msg_vars, net_vars, lock_vars, verify_vars>>)

(***************************************************************************)
(* Cancellation of a worker task in the middle of a sweep (Task.cancel on   *)
(* the tasks start_jobs created).  CancelledError is raised in the task at *)
(* the await it is suspended on; it is no Exception, so neither line 30    *)
(* (101) nor line 66 (133) catches it and the task ends.  A gather that is *)
(* being awaited cancels the handlers it gathered; the handlers of an      *)
(* earlier gather are not its children.                                     *)
(***************************************************************************)
SweepAwaits == {"iterate", "gather", "bulk_write", "bulk_written"}

MsgCancel ==
    /\ msg_pc \in SweepAwaits
    /\ msg_pc' = "cancelled"
    /\ msg_handlers' = [t \in DOMAIN msg_handlers |->
                          IF msg_pc = "gather" /\ t \in SeqToSet(msg_tasks)
                             /\ msg_handlers[t] = "running"
                          THEN "cancelled" ELSE msg_handlers[t]]
    /\ msg_tasks' = <<>>
    /\ msg_cursor' = <<>>
    /\ UNCHANGED <<pending_messages, msg_chain, msg_sweep, msg_i, msg_final,
                   msg_actions, msg_hist>>

TxCancel ==
    /\ tx_pc \in SweepAwaits
    /\ tx_pc' = "cancelled"
    /\ tx_handlers' = [t \in DOMAIN tx_handlers |->
                         IF tx_pc = "gather" /\ t \in SeqToSet(tx_tasks)
                            /\ tx_handlers[t].st \in {"running", "bulk_write"}
                         THEN [tx_handlers[t] EXCEPT !.st = "cancelled"]
                         ELSE tx_handlers[t]]
    /\ tx_tasks' = <<>>
    /\ tx_cursor' = <<>>
    /\ UNCHANGED <<pending_txs, message_inserts, tx_sweep, tx_i, tx_final,
                   tx_actions, tx_hist>>

CancelNext ==
    \/ TasksNext
    \/ MsgCancel /\ UNCHANGED <<storage_vars, tx_vars, net_vars, lock_vars, verify_vars>>
    \/ TxCancel /\ UNCHANGED <<storage_vars, msg_vars, net_vars, lock_vars, verify_vars>>

SpecCancel == InitTasks /\ [][CancelNext]_vars

\* One call of verify_content_hash, with the distributed network enabled
\* or not.
VerifyNext ==
    VerifyCall /\ UNCHANGED <<storage_vars, msg_vars, tx_vars, net_vars, lock_vars>>

InitVerify ==
    /\ VerifyStart
    /\ store = [h \in Hashes |-> None]
    /\ enabled_clients = {}
    /\ ipfs_enabled \in BOOLEAN
    /\ calls = [c \in Callers |-> IdleFrame]
    /\ cached = [h \in Hashes |-> {}]
    /\ MessagesQuiet
    /\ TxsQuiet
    /\ NetworkQuiet
    /\ LockInit

SpecVerify == InitVerify /\ [][VerifyNext]_vars

\* One call of check_message.
NetworkNext ==
    \/ CheckShape /\ UNCHANGED <<storage_vars, msg_vars, tx_vars, lock_vars, verify_vars>>
    \/ CheckInline /\ UNCHANGED <<storage_vars, msg_vars, tx_vars, lock_vars, verify_vars>>
    \/ Verify /\ UNCHANGED <<storage_vars, msg_vars, tx_vars, lock_vars, verify_vars>>

InitNetwork == NetworkStart /\ StorageQuiet /\ MessagesQuiet /\ TxsQuiet /\ LockInit /\ VerifyQuiet

SpecNetwork == InitNetwork /\ [][NetworkNext]_vars

(***************************************************************************)
(* Properties of the jobs.                                                  *)
(***************************************************************************)
\* Sweep s of the pending-message worker has returned or raised.
MsgSweepOver(s) == msg_sweep > s \/ (msg_sweep = s /\ msg_pc = "sleep")

\* Sweep s of the pending-tx worker has returned or raised.
TxSweepOver(s) == tx_sweep > s \/ (tx_sweep = s /\ tx_pc = "sleep")

\* C7: the tasks launched and not yet drained never outnumber the batch
\* size, in a sweep of either worker (200 and 100 in the source, MessageBatch
\* and TxBatch here).
C7_BoundedTasks ==
    /\ Len(msg_tasks) <= MessageBatch
    /\ Len(tx_tasks) <= TxBatch

\* C8: a record leaves the pending-message queue only by the bulk write of a
\* sweep in which incoming returned True for it; a record for which incoming
\* returned something else, or whose handler raised, in a sweep has not been
\* removed by that sweep (nor before it).
C8_RemovedOnlyIfTrue ==
    \A r \in MsgIds :
        /\ r \notin pending_messages => msg_hist.removed[r] \in Sweeps
        /\ \A s \in Sweeps :
              /\ msg_hist.removed[r] = s => msg_handlers[<<s, r>>] = "True"
              /\ msg_handlers[<<s, r>>] \in {"other", "raised"} =>
                     msg_hist.removed[r] \notin 1..s

\* C8 witness: the first sweep is over; it removed a record for which
\* incoming returned True and left in the queue one for which incoming
\* returned something else and one whose handler raised.
C8_Witness ==
    /\ MsgSweepOver(1)
    /\ \E r \in MsgIds : msg_hist.removed[r] = 1 /\ r \notin pending_messages
    /\ \E r \in MsgIds : msg_handlers[<<1, r>>] = "other" /\ r \in pending_messages
    /\ \E r \in MsgIds : msg_handlers[<<1, r>>] = "raised" /\ r \in pending_messages

\* C9: over two consecutive sweeps in which no bulk write fails, at most one
\* delete action is produced for a record, whatever handlers of its batch
\* raise.
C9_AtMostOneDelete ==
    ~msg_hist.write_failed => \A r \in MsgIds : msg_hist.deletes[r] <= 1

\* The documents in the pending-message queue that pending-tx `pending` was
\* expanded into.
InsertsOf(pending) ==
    {k \in 1..Len(message_inserts) : message_inserts[k].message.body[1] = pending}

\* C10: once a sweep has returned with no write failed, a pending-tx it
\* handled whose extractor returned a list of k messages has k inserts, each
\* with the time and the source of the tx context, and one written delete;
\* one for which it returned another non-null value has no insert and one
\* written delete; one for which it returned None has no insert and no
\* delete and is still queued.
C10_TxExpansion ==
    \A s \in Sweeps : \A pending \in TxIds :
        LET h == tx_handlers[<<s, pending>>]
            ctx == TxContext(pending)
        IN  (TxSweepOver(s) /\ h.st = "done" /\ ~tx_hist.write_failed) =>
               /\ \A k \in InsertsOf(pending) :
                      /\ message_inserts[k].message.time = ctx.time
                      /\ message_inserts[k].source =
                             [chain_name |-> ctx.chain_name, tx_hash |-> ctx.tx_hash,
                              height |-> ctx.height, check_message |-> TRUE]
               /\ h.messages.kind = "list" =>
                      /\ tx_hist.inserted[<<s, pending>>] = h.messages.k
                      /\ tx_hist.written[<<s, pending>>] = 1
               /\ h.messages.kind = "sentinel" =>
                      /\ tx_hist.inserted[<<s, pending>>] = 0
                      /\ tx_hist.written[<<s, pending>>] = 1
               /\ h.messages.kind = "null" =>
                      /\ tx_hist.inserted[<<s, pending>>] = 0
                      /\ tx_hist.written[<<s, pending>>] = 0
                      /\ (\A s2 \in Sweeps : tx_hist.written[<<s2, pending>>] = 0)
                             => pending \in pending_txs

\* C11: neither task ends on a sweep failure: whenever a sweep of
\* retry_messages_task or of handle_txs_task has returned or raised (out of
\* its cursor, a handler or a bulk write), the task starts its next sweep
\* (as long as the model counts sweeps, up to MaxSweeps).
C11_NextSweepStarts ==
    \A s \in 1..(MaxSweeps - 1) :
        /\ (msg_sweep = s /\ msg_pc \notin {"iterate", "gather", "bulk_write", "bulk_written"})
               ~> (msg_sweep = s + 1)
        /\ (tx_sweep = s /\ tx_pc \notin {"iterate", "gather", "bulk_write", "bulk_written"})
               ~> (tx_sweep = s + 1)

\* C11 witness: the second sweep of retry_messages_task is under way after a
\* bulk write of the first raised.
C11_Witness ==
    /\ msg_sweep = 2
    /\ msg_pc = "iterate"
    /\ msg_hist.write_failed

\* C16: once a worker task has been cancelled in the middle of a sweep, its
\* queue is never written again (so the actions the sweep had accumulated
\* are not applied and their records stay queued), nothing is inserted into
\* the pending-message queue by the pending-tx worker, and no sweep starts.
C16_CancelledWorkerIsSilent ==
    [][/\ msg_pc = "cancelled" =>
             /\ pending_messages' = pending_messages
             /\ msg_sweep' = msg_sweep
             /\ msg_pc' = "cancelled"
       /\ tx_pc = "cancelled" =>
             /\ pending_txs' = pending_txs
             /\ message_inserts' = message_inserts
             /\ tx_sweep' = tx_sweep
             /\ tx_pc' = "cancelled"]_vars

\* C17: outside the gather of a drain no handler is running: when a drain
\* has got past its gather (to its flush, back to the loop or out of the
\* sweep), every handler launched before it has returned or raised.
C17_DrainWaitsForHandlers ==
    /\ msg_pc # "gather" =>
           \A t \in DOMAIN msg_handlers : msg_handlers[t] # "running"
    /\ tx_pc # "gather" =>
           \A t \in DOMAIN tx_handlers : tx_handlers[t].st \notin {"running", "bulk_write"}

\* C18: every handler that has finished has invoked incoming for its
\* record, whatever the chain_name of the record's source (one of the keys
\* of seen_ids, or none of them).
C18_IncomingInvoked ==
    \A t \in DOMAIN msg_handlers :
        Finished(msg_handlers[t]) => msg_hist.invoked[t]

IsPrefix(p, q) == Len(p) <= Len(q) /\ SubSeq(q, 1, Len(p)) = p

\* The records sweep s of the pending-message (pending-tx) worker has
\* launched a handler for.
MsgLaunched(s) == {r \in MsgIds : msg_handlers[<<s, r>>] # "none"}

TxLaunched(s) == {r \in TxIds : tx_handlers[<<s, r>>].st # "none"}

\* C19: in a sweep of either worker the records still to launch come in
\* non-decreasing time, none of them earlier than a record already launched
\* and none of them launched already or twice in the cursor; and the
\* operations of a bulk write that has returned are the head of the actions
\* list, in the order of the list.
C19_LaunchAndWriteOrder ==
    /\ \A a \in 1..Len(msg_cursor) :
           /\ \A b \in 1..Len(msg_cursor) :
                  a < b => /\ TimeOf(msg_cursor[a]) <= TimeOf(msg_cursor[b])
                           /\ msg_cursor[a] # msg_cursor[b]
           /\ msg_cursor[a] \notin MsgLaunched(msg_sweep)
           /\ \A r \in MsgLaunched(msg_sweep) : TimeOf(r) <= TimeOf(msg_cursor[a])
    /\ \A a \in 1..Len(tx_cursor) :
           /\ \A b \in 1..Len(tx_cursor) :
                  a < b => /\ TxTimeOf(tx_cursor[a]) <= TxTimeOf(tx_cursor[b])
                           /\ tx_cursor[a] # tx_cursor[b]
           /\ tx_cursor[a] \notin TxLaunched(tx_sweep)
           /\ \A r \in TxLaunched(tx_sweep) : TxTimeOf(r) <= TxTimeOf(tx_cursor[a])
    /\ msg_pc = "bulk_written" => IsPrefix(msg_hist.submitted, msg_actions[msg_sweep])
    /\ tx_pc = "bulk_written" => IsPrefix(tx_hist.submitted, tx_actions[tx_sweep])

\* C19 witness: of two records launched in one sweep the later one
\* completed first, and the bulk write took their deletes in the order of
\* completion.
C19_Witness ==
    /\ msg_pc = "bulk_written"
    /\ Len(msg_hist.submitted) = 2
    /\ TimeOf(msg_hist.submitted[1]) > TimeOf(msg_hist.submitted[2])
    /\ msg_hist.submitted = msg_actions[msg_sweep]

Committed(pending, j) ==
    \E i \in 1..Len(message_inserts) :
        message_inserts[i].message.body = <<pending, j>>

\* C22: a delete of a pending-tx is in the actions list of a sweep, or has
\* been written by it, only when the handler that produced it has returned,
\* and, if its extractor returned a list, when every message of the list is
\* in the pending-message queue; and a pending-tx that a sweep handled
\* leaves its queue only by such a written delete.  Whatever the
\* interleaving, the handlers that fail, and the cancellation of the task.
C22_DeleteAfterInserts ==
    /\ \A s \in Sweeps : \A pending \in TxIds :
           LET h == tx_handlers[<<s, pending>>]
           IN  (\/ pending \in SeqToSet(tx_actions[s])
                \/ tx_hist.written[<<s, pending>>] > 0) =>
                   /\ h.st = "done"
                   /\ h.messages.kind \in {"list", "sentinel"}
                   /\ h.messages.kind = "list" =>
                          \A j \in 1..h.messages.k : Committed(pending, j)
    /\ \A pending \in TxIds :
           (pending \notin pending_txs /\ pending \in UNION {TxLaunched(s) : s \in Sweeps}) =>
               \E s \in Sweeps : tx_hist.written[<<s, pending>>] > 0

\* C22 witness: a pending-tx whose extractor returned MaxExtracted messages
\* has been deleted, with its messages in the pending-message queue, in a
\* sweep where the handler of another pending-tx raised.
C22_Witness ==
    \E s \in Sweeps : \E pending \in TxIds : \E other \in TxIds :
        /\ pending \notin pending_txs
        /\ tx_hist.written[<<s, pending>>] > 0
        /\ tx_handlers[<<s, pending>>].messages = [kind |-> "list", k |-> MaxExtracted]
        /\ \A j \in 1..MaxExtracted : Committed(pending, j)
        /\ tx_handlers[<<s, other>>].st = "raised"

(***************************************************************************)
(* Properties of check_message.                                             *)
(***************************************************************************)
\* The message the call was made with carries inline content c under the
\* item_hash of content b.
Declares(b, c) ==
    /\ net.input.has["item_hash"] = "str"
    /\ net.input.item_hash = get_sha256(b)
    /\ net.input.has["item_content"] = "str"
    /\ net.input.item_content = c

Extraneous == Fields \ INCOMING_MESSAGE_AUTHORIZED_FIELDS

\* C12: whatever the mapping it is called with (fields missing or of
\* another type, unknown hash_type, chain without verifier, verifier raising
\* ValueError), check_message ends by returning, never by raising.
C12_NeverRaises == net.result.kind # "raise"

\* C13: for an untrusted message carrying inline content b of length at
\* most MAX_INLINE_SIZE under item_hash = sha256(b), check_message returns an
\* envelope exactly when the verifier of its chain returned True; the
\* envelope has item_type inline and no field outside the whitelist; and a
\* message of valid shape and hash_type on a chain with a verifier does
\* reach that verifier, with its content.
C13_InlineRoundTrip ==
    \A b \in InlineContents :
        (/\ net.pc = "done"
         /\ ~net.trusted
         /\ Declares(b, b)
         /\ content_len(b) <= MAX_INLINE_SIZE) =>
            /\ net.result.kind = "envelope" <=> net.verdict = "True"
            /\ net.result.kind = "envelope" =>
                   /\ net.result.message.has["item_type"] = "str"
                   /\ net.result.message.item_type = "inline"
                   /\ net.result.message.item_content = b
                   /\ \A f \in Extraneous : net.result.message.has[f] = "absent"
            /\ (/\ shape_check(net.input).kind = "pending"
                /\ hash_type_is_sha256(net.input)
                /\ net.input.chain \in VERIFIER_REGISTER) =>
                   /\ net.verdict # "none"
                   /\ net.signer_arg.item_content = b

\* C13 witness: an untrusted message with content of exactly MAX_INLINE_SIZE
\* under its own hash was verified and returned.
C13_Witness ==
    /\ net.pc = "done"
    /\ ~net.trusted
    /\ Declares("limit", "limit")
    /\ net.verdict = "True"
    /\ net.result.kind = "envelope"

\* C14 as stated: a message declaring the hash of b and carrying another
\* content is answered None, whatever from_chain, from_network and trusted.
C14_MismatchRejected ==
    \A b \in InlineContents, c \in InlineContents :
        (net.pc = "done" /\ b # c /\ Declares(b, c)) => net.result.kind = "null"

\* C14: a message declaring the hash of b and carrying another content is
\* never returned when trusted is false, whatever from_chain and
\* from_network: the call returns None, unless a required field is missing
\* and it raises KeyError; when trusted is true the hash is not compared, and
\* the message is returned if its shape, size and hash_type pass.
C14_UntrustedMismatchRejected ==
    \A b \in InlineContents, c \in InlineContents :
        (net.pc = "done" /\ b # c /\ Declares(b, c)) =>
            IF net.trusted
            THEN (/\ shape_check(net.input).kind = "pending"
                  /\ content_len(c) <= MAX_INLINE_SIZE
                  /\ hash_type_is_sha256(net.input)) =>
                     /\ net.result.kind = "envelope"
                     /\ net.result.message.item_content = c
                     /\ net.result.message.item_hash = get_sha256(b)
            ELSE /\ net.result.kind \in {"null", "raise"}
                 /\ net.result.kind = "raise" => shape_check(net.input).kind = "raise"

\* C14 witness: an untrusted message of valid shape whose content is not the
\* one of its item_hash was rejected at the comparison of line 95.
C14_Witness ==
    /\ net.pc = "done"
    /\ ~net.trusted
    /\ net.from_chain
    /\ Declares("a", "b")
    /\ net.result = Rejected(97)

\* C15: a field outside the whitelist that the message came with is absent
\* from the message handed to the verifier and from the envelope returned
\* when trusted is false, and present in the message returned when trusted
\* is true.
C15_FieldWhitelist ==
    \A f \in Extraneous :
        (net.pc = "done" /\ net.input.has[f] # "absent") =>
            IF net.trusted
            THEN net.result.kind = "envelope" =>
                     net.result.message.has[f] = net.input.has[f]
            ELSE /\ net.result.kind = "envelope" =>
                        net.result.message.has[f] = "absent"
                 /\ net.verdict # "none" => net.signer_arg.has[f] = "absent"

\* C15 witness: an untrusted message that came with a field outside the
\* whitelist was verified and returned.
C15_Witness ==
    /\ net.pc = "done"
    /\ ~net.trusted
    /\ net.input.has["confirmations"] # "absent"
    /\ net.verdict = "True"
    /\ net.result.kind = "envelope"

=============================================================================
